---- MODULE Spec2Model ----
(***************************************************************************)
(* A model of tres_leches.py: a ledger (JSON document) of video file names *)
(* in five categories, reconciled against a directory listing, managed     *)
(* through an in-progress management loop and topped up one file at a time.*)
(*                                                                         *)
(* File names and prefixes are tuples of one-character strings (the last   *)
(* element of a file name stands for its extension).  A JSON document / a  *)
(* Python dict is a function from a subset of Keys to values.  The ledger  *)
(* file is the sequence disk: <<>> when no file exists, <<doc>> otherwise. *)
(* json.dump followed by json.load is the identity on these documents      *)
(* (string keys, lists of strings, null), so the file holds the document.  *)
(***************************************************************************)
EXTENDS Integers, Sequences, FiniteSets, TLC

VARIABLES
    disk,             \* the ledger file: <<>> (absent) or <<document>>
    dir,              \* names of the entries of the source directory
    branch,           \* the branch update_json_with_videos took: "create",
                      \* "load", "migrate" (load of a document without
                      \* "b-roll"), or "none" before it ran
    working_dir,      \* TRUE iff a working directory was given (else None)
    data,             \* the in-memory ledger dict
    existing_videos,  \* existing_videos["inprogress"]: a set of names
    pc,               \* the prompt the program is waiting at
    prefix,           \* main's local prefix
    candidate,        \* the top-up loop's proposed file
    chosen,           \* the management loop's selected file
    new_file,         \* the management loop's replacement draw
    status            \* "running", "exit0", "exit1" or "interrupted"

vars == <<disk, dir, branch, working_dir, data, existing_videos, pc, prefix,
          candidate, chosen, new_file, status>>

----------------------------------------------------------------------------
(* Bounds *)

NumNames == 3      \* video file names that exist at all
MaxLedger == 2     \* entries of a ledger file found at start-up
MaxDir == 2        \* video files in the source directory
MaxSpare == 1      \* names beyond target_total in the runs of the top-up loop

----------------------------------------------------------------------------
(* Values *)

None == <<"None">>

Digits == <<"1", "2", "3", "4", "5", "6", "7", "8", "9">>
Exts == <<".mp4", ".MKV", ".mov">>

\* the i-th video file name: a1.mp4, b2.MKV, a3.mov, b4.mp4, ...
VideoName(i) ==
    << (IF i % 2 = 1 THEN "a" ELSE "b"), Digits[i], Exts[((i - 1) % 3) + 1] >>

Names == { VideoName(i) : i \in 1..NumNames }

\* directory entries that are not videos
NonVideos == { <<"a", "0", ".txt">> }

ListKeys == {"unused", "used", "inprogress", "ignore", "b-roll"}

EmptyDict == [k \in {} |-> <<>>]

VIDEO_EXTENSIONS == {".mp4", ".avi", ".mov", ".mkv", ".wmv", ".flv", ".webm", ".m4v"}

target_total == 3

----------------------------------------------------------------------------
(* Python list and dict operations.  A local variable that the code will   *)
(* not read again before assigning it (chosen, new_file and candidate once *)
(* their loop iterates, prefix once it is stored, existing_videos once the *)
(* management loop is left) is set back to its initial value.              *)

Contains(l, x) == \E i \in 1..Len(l) : l[i] = x

ToSet(l) == { l[i] : i \in 1..Len(l) }

\* list.remove(x): drops the first occurrence of x (x must occur)
ListRemove(l, x) ==
    LET i == CHOOSE j \in 1..Len(l) : l[j] = x /\ \A m \in 1..(j - 1) : l[m] # x
    IN  SubSeq(l, 1, i - 1) \o SubSeq(l, i + 1, Len(l))

\* dict.get(k, default)
Get(d, k, default) == IF k \in DOMAIN d THEN d[k] ELSE default

\* d[k] = v
Put(d, k, v) == [x \in (DOMAIN d) \cup {k} |-> IF x = k THEN v ELSE d[x]]

\* d.setdefault(k, []).append(x)
SetDefaultAppend(d, k, x) == Put(d, k, Append(Get(d, k, <<>>), x))

\* if k in d and x in d[k]: d[k].remove(x)
RemoveIfPresent(d, k, x) ==
    IF k \in DOMAIN d /\ Contains(d[k], x) THEN Put(d, k, ListRemove(d[k], x)) ELSE d

\* the orders in which a set can be enumerated
Orderings(S) ==
    { s \in [1..Cardinality(S) -> S] : \A i, j \in 1..Cardinality(S) : s[i] = s[j] => i = j }

startswith(f, p) == Len(p) <= Len(f) /\ SubSeq(f, 1, Len(p)) = p

lower(e) == IF e = ".MKV" THEN ".mkv" ELSE e

----------------------------------------------------------------------------
(* Directory scanner *)

\* os.path.splitext(name)[1].lower() in VIDEO_EXTENSIONS
IsVideo(name) == lower(name[Len(name)]) \in VIDEO_EXTENSIONS

\* get_video_files
get_video_files(directory) == { n \in directory : IsVideo(n) }

\* iter_video_files: the video names in some scandir order
iter_video_files(directory) == Orderings(get_video_files(directory))

----------------------------------------------------------------------------
(* Selector *)

\* The results the reservoir loop can end with, from position i on, having
\* seen n matches and holding chosen c: random.randrange(n) = 0 is certain
\* for n = 1 and possible but not certain for n > 1.
RECURSIVE Reservoir(_, _, _, _, _)
Reservoir(items, p, i, n, c) ==
    IF i > Len(items) THEN {c}
    ELSE IF startswith(items[i], p)
         THEN Reservoir(items, p, i + 1, n + 1, items[i])
              \cup (IF n + 1 > 1 THEN Reservoir(items, p, i + 1, n + 1, c) ELSE {})
         ELSE Reservoir(items, p, i + 1, n, c)

\* "not prefix": None and "" are falsy
Falsy(p) == p = None \/ p = <<>>

\* mutant: the prefix is not applied
choose_random_by_prefix_NoFilter(items, p) ==
    IF items = <<>> THEN {None} ELSE ToSet(items)

\* the set of values choose_random_by_prefix(items, prefix) can return
choose_random_by_prefix(items, p) ==
    IF items = <<>> THEN {None}
    ELSE IF Falsy(p) THEN ToSet(items)
    ELSE Reservoir(items, p, 1, 0, None)

----------------------------------------------------------------------------
(* Ledger store: update_json_with_videos up to its call of the management loop *)

FreshLedger == [k \in ListKeys |-> <<>>]

\* mutant: the tuple of categories lacks "unused"
Known_NoUnused(d) == UNION { ToSet(Get(d, k, <<>>)) : k \in ListKeys \ {"unused"} }

\* the names already known across the five categories
Known(d) == UNION { ToSet(Get(d, k, <<>>)) : k \in ListKeys }

\* the loop over iter_video_files(directory) that appends the unknown names
RECURSIVE AddNew(_, _, _, _, _)
AddNew(d, known, order, i, n) ==
    IF i > Len(order) THEN [data |-> d, added |-> n]
    ELSE IF order[i] \notin known
         THEN AddNew(SetDefaultAppend(d, "unused", order[i]), known \cup {order[i]},
                     order, i + 1, n + 1)
         ELSE AddNew(d, known, order, i + 1, n)

\* mutant: every directory entry is taken, whatever its extension
CreateOutcomes_Unfiltered(directory) ==
    { [data |-> Put(FreshLedger, "unused", order),
       disk |-> <<Put(FreshLedger, "unused", order)>>,
       added |-> Len(order)] : order \in Orderings(directory) }

\* the branch taken when no ledger file exists
CreateOutcomes(directory) ==
    { [data |-> Put(FreshLedger, "unused", order),
       disk |-> <<Put(FreshLedger, "unused", order)>>,
       added |-> Len(order)] : order \in iter_video_files(directory) }

\* mutant: no migration
Migrate_Skip(d) == d

\* "b-roll" not in data: data["b-roll"] = []
Migrate(d) == IF "b-roll" \notin DOMAIN d THEN Put(d, "b-roll", <<>>) ELSE d

\* mutant: the known names are not collected before the scan
LoadOutcomes_KnownEmpty(file, directory) ==
    LET d1 == Migrate(file)
    IN  { LET r == AddNew(d1, {}, order, 1, 0)
          IN  [data |-> r.data,
               disk |-> IF r.added > 0 THEN <<r.data>> ELSE <<d1>>,
               added |-> r.added] : order \in iter_video_files(directory) }

\* the branch taken when the ledger file exists
LoadOutcomes(file, directory) ==
    LET d1 == Migrate(file)
    IN  { LET r == AddNew(d1, Known(d1), order, 1, 0)
          IN  [data |-> r.data,
               disk |-> IF r.added > 0 THEN <<r.data>> ELSE <<d1>>,
               added |-> r.added] : order \in iter_video_files(directory) }

update_json_with_videos(dsk, directory) ==
    IF dsk = <<>> THEN CreateOutcomes(directory) ELSE LoadOutcomes(dsk[1], directory)

----------------------------------------------------------------------------
(* Initial states *)

Count(l, x) == Cardinality({ i \in 1..Len(l) : l[i] = x })

\* how often name x is listed in the five categories of d
Occurrences(d, x) ==
    Count(Get(d, "unused", <<>>), x) + Count(Get(d, "used", <<>>), x)
    + Count(Get(d, "inprogress", <<>>), x) + Count(Get(d, "ignore", <<>>), x)
    + Count(Get(d, "b-roll", <<>>), x)

\* the five lists are pairwise disjoint and duplicate-free
WellFormed(d) == \A x \in Names : Occurrences(d, x) <= 1

Restrict(d, K) == [k \in K |-> d[k]]

\* a ledger given by the order in which its entries were filed
LedgerOf(s) ==
    [k \in ListKeys |->
        LET sel == SelectSeq(s, LAMBDA e : e[2] = k)
        IN  [i \in 1..Len(sel) |-> sel[i][1]]]

FullLedgers ==
    { LedgerOf(s) : s \in UNION { [1..n -> Names \X ListKeys] : n \in 0..MaxLedger } }

\* a legacy document has no "b-roll" key
Legacy(d) == Restrict(d, DOMAIN d \ {"b-roll"})

\* a document that lacks the keys of its empty lists
Sparse(d) == Restrict(d, { k \in DOMAIN d : d[k] # <<>> })

\* the last_prefix values of a ledger file that has the key
InitPrefixes == {<<"a">>}

AnyPrefixes == {None, <<"a">>}

WithPrefix(D, P) == D \cup { Put(d, "last_prefix", p) : d \in D, p \in P }

LegacyOf(D) == { Legacy(d) : d \in { e \in D : e["b-roll"] = <<>> } }

\* ledger files with pairwise disjoint, duplicate-free lists; a legacy
\* document has no last_prefix either
DisjointLedgers ==
    LET F == { d \in FullLedgers : WellFormed(d) }
    IN  WithPrefix(F, InitPrefixes) \cup LegacyOf(F)

\* any ledger files
AnyLedgers ==
    WithPrefix(FullLedgers \cup LegacyOf(FullLedgers) \cup { Sparse(d) : d \in FullLedgers },
               AnyPrefixes)

\* the directory holds up to MaxDir videos besides its other entries
Directories == { D \cup NonVideos : D \in { E \in SUBSET Names : Cardinality(E) <= MaxDir } }

InitRest ==
    /\ dir \in Directories
    /\ branch = "none"
    /\ working_dir = FALSE
    /\ data = EmptyDict
    /\ existing_videos = {}
    /\ pc = "ask_settings"
    /\ prefix = None
    /\ candidate = None
    /\ chosen = None
    /\ new_file = None
    /\ status = "running"

Init ==
    /\ disk \in {<<>>} \cup { <<d>> : d \in DisjointLedgers }
    /\ InitRest

InitAny ==
    /\ disk \in {<<>>} \cup { <<d>> : d \in AnyLedgers }
    /\ InitRest

----------------------------------------------------------------------------
(* __main__ up to the prefix prompt *)

Halt(code) ==
    /\ pc' = "halt"
    /\ status' = code

\* Path(directory).is_dir() is false: exit(1)
InvalidDirectory ==
    /\ pc = "ask_settings"
    /\ Halt("exit1")
    /\ UNCHANGED <<disk, dir, branch, working_dir, data, existing_videos, prefix,
                   candidate, chosen, new_file>>

\* mutant: the exception of mkdir is swallowed and the run goes on
WorkingDirFails_Continues ==
    /\ pc = "ask_settings"
    /\ working_dir' = TRUE
    /\ pc' = "confirm_settings"
    /\ UNCHANGED <<disk, dir, branch, data, existing_videos, prefix,
                   candidate, chosen, new_file, status>>

\* Path(working_dir).mkdir raises: exit(1)
WorkingDirFails ==
    /\ pc = "ask_settings"
    /\ working_dir' = TRUE
    /\ Halt("exit1")
    /\ UNCHANGED <<disk, dir, branch, data, existing_videos, prefix,
                   candidate, chosen, new_file>>

\* the three settings are read and accepted
Settings ==
    /\ pc = "ask_settings"
    /\ \E wd \in BOOLEAN : working_dir' = wd
    /\ pc' = "confirm_settings"
    /\ UNCHANGED <<disk, dir, branch, data, existing_videos, prefix,
                   candidate, chosen, new_file, status>>

\* mutant: the management loop is entered whatever the ledger holds
AfterLoad_Always(d) ==
    /\ existing_videos' = ToSet(Get(d, "inprogress", <<>>))
    /\ pc' = "mgmt_select"

\* line 337: the management loop is entered iff data["inprogress"] is truthy
AfterLoad(d) ==
    IF Get(d, "inprogress", <<>>) # <<>>
    THEN /\ existing_videos' = ToSet(d["inprogress"])
         /\ pc' = "mgmt_select"
    ELSE /\ existing_videos' = existing_videos
         /\ pc' = "ask_prefix"

\* Enter at "Are these settings correct?", no ledger file: it is created
CreateLedger ==
    /\ pc = "confirm_settings"
    /\ disk = <<>>
    /\ \E r \in CreateOutcomes(dir) :
          /\ data' = r.data
          /\ disk' = r.disk
    /\ pc' = "ask_prefix"
    /\ branch' = "create"
    /\ UNCHANGED <<dir, working_dir, existing_videos, prefix, candidate, chosen,
                   new_file, status>>

\* Enter at "Are these settings correct?", the ledger file exists: it is
\* loaded, migrated and reconciled with the directory (the file holds a
\* JSON object; one that does not parse ends the program in json.load)
LoadLedger ==
    /\ pc = "confirm_settings"
    /\ disk # <<>>
    /\ \E r \in LoadOutcomes(disk[1], dir) :
          /\ data' = r.data
          /\ disk' = r.disk
          /\ AfterLoad(r.data)
    /\ branch' = IF "b-roll" \in DOMAIN disk[1] THEN "load" ELSE "migrate"
    /\ UNCHANGED <<dir, working_dir, prefix, candidate, chosen, new_file, status>>

----------------------------------------------------------------------------
(* handle_inprogress_files *)

isdigit(sel) == sel = "0" \/ \E i \in 1..Len(Digits) : Digits[i] = sel

int(sel) == IF sel = "0" THEN 0 ELSE CHOOSE i \in 1..Len(Digits) : Digits[i] = sel

\* 1 <= int(selection) <= len(inprogress_list)
ValidSelection(sel, lst) == isdigit(sel) /\ 1 <= int(sel) /\ int(sel) <= Len(lst)

\* the answers tried at the selection prompt besides 'c' and 'x'
Selections == {"", "zz", "0"} \cup { Digits[i] : i \in 1..(Cardinality(existing_videos) + 1) }

\* mutant: the chosen item is appended without being removed
MoveFromInprogress_NoRemove(d, name, to) == SetDefaultAppend(d, to, name)

\* the chosen item leaves inprogress and is appended to category `to`
MoveFromInprogress(d, name, to) ==
    SetDefaultAppend(RemoveIfPresent(d, "inprogress", name), to, name)

\* 'c': leave the loop, main goes on to the prefix prompt
MgmtContinue ==
    /\ pc = "mgmt_select"
    /\ pc' = "ask_prefix"
    /\ existing_videos' = {}
    /\ UNCHANGED <<disk, dir, branch, working_dir, data, prefix,
                   candidate, chosen, new_file, status>>

\* mutant: 'x' leaves the loop as 'c' does
MgmtExit_Break ==
    /\ pc = "mgmt_select"
    /\ existing_videos' = {}
    /\ pc' = "ask_prefix"
    /\ UNCHANGED <<disk, dir, branch, working_dir, data, prefix, candidate, chosen,
                   new_file, status>>

\* 'x': exit()
MgmtExit ==
    /\ pc = "mgmt_select"
    /\ Halt("exit0")
    /\ UNCHANGED <<disk, dir, branch, working_dir, data, existing_videos, prefix,
                   candidate, chosen, new_file>>

\* a selection that is not a number of the list
MgmtInvalidSelection ==
    /\ pc = "mgmt_select"
    /\ \E lst \in Orderings(existing_videos), sel \in Selections :
          /\ ~ValidSelection(sel, lst)
    /\ UNCHANGED <<disk, dir, branch, working_dir, data, existing_videos, pc, prefix,
                   candidate, chosen, new_file, status>>

\* a valid number: chosen = inprogress_list[int(selection) - 1]
MgmtSelectFile ==
    /\ pc = "mgmt_select"
    /\ \E lst \in Orderings(existing_videos), sel \in Selections :
          /\ ValidSelection(sel, lst)
          /\ chosen' = lst[int(sel)]
    /\ pc' = "mgmt_action"
    /\ UNCHANGED <<disk, dir, branch, working_dir, data, existing_videos, prefix,
                   candidate, new_file, status>>

\* 's': back to the list
MgmtBack ==
    /\ pc = "mgmt_action"
    /\ pc' = "mgmt_select"
    /\ chosen' = None
    /\ UNCHANGED <<disk, dir, branch, working_dir, data, existing_videos, prefix,
                   candidate, new_file, status>>

\* mutant: every action files the chosen item under "used"
MgmtMove_Used(to) ==
    /\ existing_videos' = existing_videos \ {chosen}
    /\ data' = MoveFromInprogress(data, chosen, "used")
    /\ disk' = <<data'>>

\* mutant: the chosen item stays in the set listed to the user
MgmtMove_KeepListed(to) ==
    /\ existing_videos' = existing_videos
    /\ data' = MoveFromInprogress(data, chosen, to)
    /\ disk' = <<data'>>

\* mutant: the file is not rewritten
MgmtMove_NoWrite(to) ==
    /\ existing_videos' = existing_videos \ {chosen}
    /\ data' = MoveFromInprogress(data, chosen, to)
    /\ disk' = disk

\* the common part of 'r', 'b', 'd' and 'i': move chosen and rewrite the file
MgmtMove(to) ==
    /\ existing_videos' = existing_videos \ {chosen}
    /\ data' = MoveFromInprogress(data, chosen, to)
    /\ disk' = <<data'>>

\* 'r': return to unused, then ask about a replacement
MgmtReturn ==
    /\ pc = "mgmt_action"
    /\ MgmtMove("unused")
    /\ pc' = "mgmt_replace_r"
    /\ UNCHANGED <<dir, branch, working_dir, prefix, candidate, chosen, new_file, status>>

\* 'b': mark as b-roll
MgmtBroll ==
    /\ pc = "mgmt_action"
    /\ MgmtMove("b-roll")
    /\ pc' = "mgmt_select"
    /\ chosen' = None
    /\ UNCHANGED <<dir, branch, working_dir, prefix, candidate, new_file, status>>

\* 'd': mark done
MgmtDone ==
    /\ pc = "mgmt_action"
    /\ MgmtMove("used")
    /\ pc' = "mgmt_select"
    /\ chosen' = None
    /\ UNCHANGED <<dir, branch, working_dir, prefix, candidate, new_file, status>>

\* 'i': ignore, then ask about a replacement
MgmtIgnore ==
    /\ pc = "mgmt_action"
    /\ MgmtMove("ignore")
    /\ pc' = "mgmt_replace_i"
    /\ UNCHANGED <<dir, branch, working_dir, prefix, candidate, chosen, new_file, status>>

\* any other action: "Unrecognized action"
MgmtUnrecognized ==
    /\ pc = "mgmt_action"
    /\ pc' = "mgmt_select"
    /\ chosen' = None
    /\ UNCHANGED <<disk, dir, branch, working_dir, data, existing_videos, prefix,
                   candidate, new_file, status>>

\* any answer but 'y' at "Replace it with another random file from 'unused'?"
DeclineReplace ==
    /\ pc \in {"mgmt_replace_r", "mgmt_replace_i"}
    /\ pc' = "mgmt_select"
    /\ chosen' = None
    /\ UNCHANGED <<disk, dir, branch, working_dir, data, existing_videos, prefix,
                   candidate, new_file, status>>

\* mutant: the replacement is filed under inprogress but stays in unused
Replace_NoRemove(at) ==
    /\ pc = at
    /\ \E nf \in choose_random_by_prefix(Get(data, "unused", <<>>),
                                         Get(data, "last_prefix", None)) :
          IF nf = None
          THEN /\ pc' = "mgmt_select"
               /\ new_file' = None
               /\ UNCHANGED <<disk, data, existing_videos>>
          ELSE /\ data' = SetDefaultAppend(data, "inprogress", nf)
               /\ existing_videos' = existing_videos \cup {nf}
               /\ disk' = <<data'>>
               /\ IF working_dir
                  THEN pc' = "mgmt_copy" /\ new_file' = nf
                  ELSE pc' = "mgmt_select" /\ new_file' = None
    /\ chosen' = None
    /\ UNCHANGED <<dir, branch, working_dir, prefix, candidate, status>>

\* mutant: the replacement is removed from unused but not filed under
\* inprogress
Replace_NoAppend(at) ==
    /\ pc = at
    /\ \E nf \in choose_random_by_prefix(Get(data, "unused", <<>>),
                                         Get(data, "last_prefix", None)) :
          IF nf = None
          THEN /\ pc' = "mgmt_select"
               /\ new_file' = None
               /\ UNCHANGED <<disk, data, existing_videos>>
          ELSE /\ data' = Put(data, "unused", ListRemove(data["unused"], nf))
               /\ existing_videos' = existing_videos \cup {nf}
               /\ disk' = <<data'>>
               /\ IF working_dir
                  THEN pc' = "mgmt_copy" /\ new_file' = nf
                  ELSE pc' = "mgmt_select" /\ new_file' = None
    /\ chosen' = None
    /\ UNCHANGED <<dir, branch, working_dir, prefix, candidate, status>>

\* 'y' at "Replace it with another random file from 'unused'?"
Replace(at) ==
    /\ pc = at
    /\ \E nf \in choose_random_by_prefix(Get(data, "unused", <<>>),
                                         Get(data, "last_prefix", None)) :
          IF nf = None
          THEN /\ pc' = "mgmt_select"
               /\ new_file' = None
               /\ UNCHANGED <<disk, data, existing_videos>>
          ELSE /\ data' = SetDefaultAppend(
                             Put(data, "unused", ListRemove(data["unused"], nf)),
                             "inprogress", nf)
               /\ existing_videos' = existing_videos \cup {nf}
               /\ disk' = <<data'>>
               /\ IF working_dir
                  THEN pc' = "mgmt_copy" /\ new_file' = nf
                  ELSE pc' = "mgmt_select" /\ new_file' = None
    /\ chosen' = None
    /\ UNCHANGED <<dir, branch, working_dir, prefix, candidate, status>>

ReplaceAfterReturn == Replace("mgmt_replace_r")

ReplaceAfterIgnore == Replace("mgmt_replace_i")

\* the answer at "Copy '...' to working directory?": no effect on the ledger
MgmtCopy ==
    /\ pc = "mgmt_copy"
    /\ pc' = "mgmt_select"
    /\ new_file' = None
    /\ UNCHANGED <<disk, dir, branch, working_dir, data, existing_videos, prefix,
                   candidate, chosen, status>>

----------------------------------------------------------------------------
(* __main__ from the prefix prompt on, and top_up_inprogress_one_by_one *)

PrefixInputs == {<<>>, <<"a">>}

AskPrefix ==
    /\ pc = "ask_prefix"
    /\ prefix' \in PrefixInputs
    /\ pc' = "confirm_prefix"
    /\ UNCHANGED <<disk, dir, branch, working_dir, data, existing_videos,
                   candidate, chosen, new_file, status>>

\* mutant: the loop runs while the count is <= the target
TopUpLoop_OffByOne(d) ==
    IF Len(Get(d, "inprogress", <<>>)) > target_total
    THEN /\ Halt("exit0")
         /\ candidate' = None
    ELSE \E c \in choose_random_by_prefix(Get(d, "unused", <<>>),
                                          Get(d, "last_prefix", None)) :
            /\ candidate' = c
            /\ IF c = None
               THEN Halt("exit0")
               ELSE pc' = "topup_prompt" /\ status' = status

\* mutant: the loop does not test the target
TopUpLoop_NoTarget(d) ==
    \E c \in choose_random_by_prefix(Get(d, "unused", <<>>),
                                     Get(d, "last_prefix", None)) :
       /\ candidate' = c
       /\ IF c = None
          THEN Halt("exit0")
          ELSE pc' = "topup_prompt" /\ status' = status

\* the head of the while loop of top_up_inprogress_one_by_one for ledger d:
\* return when the target is reached, break when there is no candidate,
\* else propose a candidate
TopUpLoop(d) ==
    IF Len(Get(d, "inprogress", <<>>)) >= target_total
    THEN /\ Halt("exit0")
         /\ candidate' = None
    ELSE \E c \in choose_random_by_prefix(Get(d, "unused", <<>>),
                                          Get(d, "last_prefix", None)) :
            /\ candidate' = c
            /\ IF c = None
               THEN Halt("exit0")
               ELSE pc' = "topup_prompt" /\ status' = status

\* Enter at "You entered ...": the file is re-read, last_prefix is stored,
\* and the top-up loop starts.  The file was written or read by
\* update_json_with_videos just before, so the read does not fail here.
ConfirmPrefix ==
    /\ pc = "confirm_prefix"
    /\ data' = Put(disk[1], "last_prefix", IF prefix # <<>> THEN prefix ELSE None)
    /\ disk' = <<data'>>
    /\ TopUpLoop(data')
    /\ prefix' = None
    /\ UNCHANGED <<dir, branch, working_dir, existing_videos, chosen, new_file>>

\* 'p': preview_video, then the same prompt again
TopUpPreview ==
    /\ pc = "topup_prompt"
    /\ UNCHANGED <<disk, dir, branch, working_dir, data, existing_videos, pc, prefix,
                   candidate, chosen, new_file, status>>

\* 'x': stop
TopUpStop ==
    /\ pc = "topup_prompt"
    /\ Halt("exit0")
    /\ candidate' = None
    /\ UNCHANGED <<disk, dir, branch, working_dir, data, existing_videos, prefix,
                   chosen, new_file>>

\* mutant: the candidate is appended without being removed
MoveFromUnused_NoRemove(d, name, to) == SetDefaultAppend(d, to, name)

\* if candidate in data["unused"]: remove it; then append it to category `to`
MoveFromUnused(d, name, to) ==
    SetDefaultAppend(RemoveIfPresent(d, "unused", name), to, name)

\* 'i': ignore the candidate
TopUpIgnore ==
    /\ pc = "topup_prompt"
    /\ data' = MoveFromUnused(data, candidate, "ignore")
    /\ disk' = <<data'>>
    /\ TopUpLoop(data')
    /\ UNCHANGED <<dir, branch, working_dir, existing_videos, prefix, chosen, new_file>>

\* 'b': the candidate is b-roll
TopUpBroll ==
    /\ pc = "topup_prompt"
    /\ data' = MoveFromUnused(data, candidate, "b-roll")
    /\ disk' = <<data'>>
    /\ TopUpLoop(data')
    /\ UNCHANGED <<dir, branch, working_dir, existing_videos, prefix, chosen, new_file>>

\* 'c': confirm the candidate
TopUpConfirm ==
    /\ pc = "topup_prompt"
    /\ data' = SetDefaultAppend(Put(data, "unused", ListRemove(data["unused"], candidate)),
                                "inprogress", candidate)
    /\ disk' = <<data'>>
    /\ IF working_dir
       THEN /\ pc' = "topup_copy"
            /\ UNCHANGED <<candidate, status>>
       ELSE TopUpLoop(data')
    /\ UNCHANGED <<dir, branch, working_dir, existing_videos, prefix, chosen, new_file>>

\* mutant: an unrecognized answer is taken for 'i'
TopUpPickAnother_Ignores ==
    /\ pc = "topup_prompt"
    /\ data' = MoveFromUnused(data, candidate, "ignore")
    /\ disk' = <<data'>>
    /\ TopUpLoop(data')
    /\ UNCHANGED <<dir, branch, working_dir, existing_videos, prefix, chosen, new_file>>

\* Enter or any other answer: pick another
TopUpPickAnother ==
    /\ pc = "topup_prompt"
    /\ TopUpLoop(data)
    /\ UNCHANGED <<disk, dir, branch, working_dir, data, existing_videos, prefix,
                   chosen, new_file>>

\* the answer at "Copy '...' to working directory?": no effect on the ledger
TopUpCopy ==
    /\ pc = "topup_copy"
    /\ TopUpLoop(data)
    /\ UNCHANGED <<disk, dir, branch, working_dir, data, existing_videos, prefix,
                   chosen, new_file>>

----------------------------------------------------------------------------
(* Ctrl-C at a prompt *)

\* the process has ended on an exception: its memory is gone
Gone ==
    /\ data' = EmptyDict
    /\ existing_videos' = {}
    /\ prefix' = None
    /\ candidate' = None
    /\ chosen' = None
    /\ new_file' = None

\* the prompts of confirm_to_continue
ConfirmPrompts == {"confirm_settings", "confirm_prefix"}

\* the prompts that call input() outside any try block
BarePrompts ==
    {"ask_settings", "mgmt_select", "mgmt_action", "mgmt_replace_r", "mgmt_replace_i",
     "mgmt_copy", "ask_prefix", "topup_prompt", "topup_copy"}

\* KeyboardInterrupt inside confirm_to_continue: caught, "Exit signal
\* received.", exit()
InterruptCaught ==
    /\ pc \in ConfirmPrompts
    /\ Halt("exit0")
    /\ Gone
    /\ UNCHANGED <<disk, dir, branch, working_dir>>

\* KeyboardInterrupt in any other input(): nothing catches it, the
\* interpreter prints the traceback and the process dies of the interrupt
InterruptUncaught ==
    /\ pc \in BarePrompts
    /\ Halt("interrupted")
    /\ Gone
    /\ UNCHANGED <<disk, dir, branch, working_dir>>

----------------------------------------------------------------------------

Next ==
    \/ InvalidDirectory
    \/ WorkingDirFails
    \/ Settings
    \/ CreateLedger
    \/ LoadLedger
    \/ MgmtContinue
    \/ MgmtExit
    \/ MgmtInvalidSelection
    \/ MgmtSelectFile
    \/ MgmtBack
    \/ MgmtReturn
    \/ MgmtBroll
    \/ MgmtDone
    \/ MgmtIgnore
    \/ MgmtUnrecognized
    \/ DeclineReplace
    \/ ReplaceAfterReturn
    \/ ReplaceAfterIgnore
    \/ MgmtCopy
    \/ AskPrefix
    \/ ConfirmPrefix
    \/ TopUpPreview
    \/ TopUpStop
    \/ TopUpIgnore
    \/ TopUpBroll
    \/ TopUpConfirm
    \/ TopUpPickAnother
    \/ TopUpCopy
    \/ InterruptCaught
    \/ InterruptUncaught

Spec == Init /\ [][Next]_vars

\* the names of the runs that go straight to the top-up loop: enough for
\* the target to be reached while a candidate is left
TopUpNames == { VideoName(i) : i \in 1..(target_total + MaxSpare) }

\* ledger files an earlier run left with target_total - 1 or more files in
\* progress and nothing else; the directory supplies unused
TopUpLedgers ==
    LET P == UNION { Orderings(S) :
                       S \in { T \in SUBSET TopUpNames : Cardinality(T) >= target_total - 1 } }
    IN  WithPrefix({ [k \in ListKeys |-> IF k = "inprogress" THEN l ELSE <<>>] : l \in P },
                   InitPrefixes)

TopUpDirectories ==
    { D \cup NonVideos : D \in { E \in SUBSET TopUpNames : Cardinality(E) <= MaxDir } }

InitTopUp ==
    /\ disk \in {<<>>} \cup { <<d>> : d \in TopUpLedgers }
    /\ dir \in TopUpDirectories
    /\ branch = "none"
    /\ working_dir = FALSE
    /\ data = EmptyDict
    /\ existing_videos = {}
    /\ pc = "ask_settings"
    /\ prefix = None
    /\ candidate = None
    /\ chosen = None
    /\ new_file = None
    /\ status = "running"

\* the runs in which the user leaves the management loop at once ('c')
NextTopUp ==
    \/ InvalidDirectory
    \/ WorkingDirFails
    \/ Settings
    \/ CreateLedger
    \/ LoadLedger
    \/ MgmtContinue
    \/ AskPrefix
    \/ ConfirmPrefix
    \/ TopUpPreview
    \/ TopUpStop
    \/ TopUpIgnore
    \/ TopUpBroll
    \/ TopUpConfirm
    \/ TopUpPickAnother
    \/ TopUpCopy
    \/ InterruptCaught
    \/ InterruptUncaught

\* an answer at a prompt of the top-up loop other than preview and
\* pick-another
TopUpAnswer ==
    \/ TopUpConfirm
    \/ TopUpIgnore
    \/ TopUpBroll
    \/ TopUpStop
    \/ TopUpCopy

\* the top-up loop on ledgers near the target; the user does not answer
\* preview or pick-another forever
SpecTopUp == InitTopUp /\ [][NextTopUp]_vars /\ WF_vars(TopUpAnswer)

\* ledger files with a duplicate-free inprogress list of fewer names than the
\* target and at most one name under unused, which may be one of inprogress
OverlapLedgers ==
    LET P == UNION { Orderings(S) :
                       S \in { T \in SUBSET Names : T # {} /\ Cardinality(T) < target_total } }
        U == {<<>>} \cup { <<x>> : x \in Names }
    IN  WithPrefix({ [k \in ListKeys |-> IF k = "inprogress" THEN l
                                        ELSE IF k = "unused" THEN u ELSE <<>>] :
                       l \in P, u \in U },
                   InitPrefixes)

InitOverlap ==
    /\ disk \in {<<>>} \cup { <<d>> : d \in OverlapLedgers }
    /\ InitRest

\* the program up to the end of the management loop
NextMgmt ==
    \/ InvalidDirectory
    \/ WorkingDirFails
    \/ Settings
    \/ CreateLedger
    \/ LoadLedger
    \/ MgmtContinue
    \/ MgmtExit
    \/ MgmtInvalidSelection
    \/ MgmtSelectFile
    \/ MgmtBack
    \/ MgmtReturn
    \/ MgmtBroll
    \/ MgmtDone
    \/ MgmtIgnore
    \/ MgmtUnrecognized
    \/ DeclineReplace
    \/ ReplaceAfterReturn
    \/ ReplaceAfterIgnore
    \/ MgmtCopy
    \/ InterruptCaught
    \/ InterruptUncaught

\* the management loop on ledger files whose lists need not be disjoint
SpecOverlap == InitOverlap /\ [][NextMgmt]_vars

\* the program up to the first prompt after update_json_with_videos
NextLoad ==
    \/ InvalidDirectory
    \/ WorkingDirFails
    \/ Settings
    \/ CreateLedger
    \/ LoadLedger
    \/ InterruptCaught
    \/ InterruptUncaught

\* reconciliation of any ledger document with any directory
SpecLoad == InitAny /\ [][NextLoad]_vars

----------------------------------------------------------------------------
(* Properties *)

Categories(d, x) == { k \in ListKeys : Contains(Get(d, k, <<>>), x) }

\* no name is listed in more than one of the five categories of d
Exclusive(d) == \A x \in Names \cup NonVideos : Cardinality(Categories(d, x)) <= 1

List(d, k) == Get(d, k, <<>>)

\* l2 is l1 followed by the names of S, each once
AppendsExactly(l1, l2, S) ==
    /\ Len(l2) = Len(l1) + Cardinality(S)
    /\ SubSeq(l2, 1, Len(l1)) = l1
    /\ { l2[i] : i \in (Len(l1) + 1)..Len(l2) } = S

\* the steps in which update_json_with_videos runs
LoadStep == pc = "confirm_settings" /\ pc' \in {"mgmt_select", "ask_prefix"}

\* C1: starting from a freshly created ledger or from a loaded ledger whose
\* five lists are pairwise disjoint and duplicate-free, no file name is ever
\* in more than one of the categories unused, used, inprogress, ignore and
\* b-roll, in memory or in the ledger file.
C1_Exclusive ==
    /\ Exclusive(data)
    /\ disk # <<>> => Exclusive(disk[1])

\* reached after management actions (done, b-roll) and a top-up confirm
C1_Witness ==
    /\ pc = "topup_copy"
    /\ List(data, "used") # <<>>
    /\ List(data, "b-roll") # <<>>
    /\ List(data, "inprogress") = <<candidate>>

\* C2: right after update_json_with_videos has reconciled the ledger with
\* the directory, running it once more on the same file and directory adds
\* no name and leaves every list and the file as they are, whatever the
\* ledger document and the directory were.
C2_Idempotent ==
    [][LoadStep =>
         \A r \in update_json_with_videos(disk', dir') :
            /\ r.added = 0
            /\ r.disk = disk'
            /\ r.data = data']_vars

\* reached when the first run has put directory names into unused
C2_Witness ==
    /\ pc = "ask_prefix"
    /\ branch = "load"
    /\ List(data, "inprogress") = <<>>
    /\ List(data, "used") # <<>>
    /\ \E x \in get_video_files(dir) : Contains(List(data, "unused"), x)
    /\ \E x \in get_video_files(dir) : Contains(List(data, "used"), x)

\* C3: when no ledger file exists, the file written lists exactly the video
\* names of the directory in unused, each once, and used, inprogress, ignore
\* and b-roll are empty; the management loop is not entered on this path.
C3_Create ==
    [][(LoadStep /\ disk = <<>>) =>
         /\ disk' = <<data'>>
         /\ AppendsExactly(<<>>, List(data', "unused"), get_video_files(dir))
         /\ \A k \in ListKeys \ {"unused"} : k \in DOMAIN data' /\ data'[k] = <<>>
         /\ pc' = "ask_prefix"]_vars

\* reached when the directory holds a video and a file that is no video
C3_Witness ==
    /\ pc = "ask_prefix"
    /\ branch = "create"
    /\ dir \cap NonVideos # {}
    /\ Len(List(data, "unused")) = 1
    /\ disk = <<data>>

\* C4: when the ledger file exists, exactly the directory's video names that
\* are in none of the five categories are appended to unused, each once; the
\* other four lists and the entries unused already had stay as they were,
\* whether or not their files are still in the directory.
C4_Reconcile ==
    [][(LoadStep /\ disk # <<>>) =>
         /\ AppendsExactly(List(disk[1], "unused"), List(data', "unused"),
                           get_video_files(dir) \ Known(disk[1]))
         /\ \A k \in ListKeys \ {"unused"} : List(data', k) = List(disk[1], k)
         /\ disk' = <<data'>>]_vars

\* reached with a used name still in the directory, a known name that is no
\* longer there, and a new name appended to unused
C4_Witness ==
    /\ pc = "ask_prefix"
    /\ branch = "load"
    /\ \E x \in get_video_files(dir) : Contains(List(data, "used"), x)
    /\ \E x \in Known(data) : x \notin dir
    /\ \E x \in get_video_files(dir) : List(data, "unused") = <<x>>

\* C5: loading a legacy ledger without a b-roll category yields, in memory
\* and in the file, a ledger with an empty b-roll list; used, inprogress,
\* ignore and last_prefix are as they were, and the entries of unused are
\* kept (reconciliation may append to them).
C5_Migration ==
    [][(LoadStep /\ disk # <<>> /\ "b-roll" \notin DOMAIN disk[1]) =>
         /\ "b-roll" \in DOMAIN data' /\ data'["b-roll"] = <<>>
         /\ "b-roll" \in DOMAIN disk'[1] /\ disk'[1]["b-roll"] = <<>>
         /\ \A k \in {"used", "inprogress", "ignore"} :
               /\ List(data', k) = List(disk[1], k)
               /\ List(disk'[1], k) = List(disk[1], k)
         /\ SubSeq(List(data', "unused"), 1, Len(List(disk[1], "unused")))
               = List(disk[1], "unused")
         /\ get_video_files(dir) \subseteq Known(disk[1]) =>
               /\ List(data', "unused") = List(disk[1], "unused")
               /\ List(disk'[1], "unused") = List(disk[1], "unused")
         /\ ("last_prefix" \in DOMAIN data') = ("last_prefix" \in DOMAIN disk[1])
         /\ Get(data', "last_prefix", None) = Get(disk[1], "last_prefix", None)
         /\ Get(disk'[1], "last_prefix", None) = Get(disk[1], "last_prefix", None)]_vars

\* reached right after a legacy ledger with an in-progress file was loaded
\* and nothing was added from the directory
C5_Witness ==
    /\ pc = "mgmt_select"
    /\ branch = "migrate"
    /\ get_video_files(dir) = {}
    /\ data["b-roll"] = <<>>
    /\ disk = <<data>>
    /\ List(data, "used") # <<>>

\* the candidate set of choose_random_by_prefix(items, p)
Candidates(items, p) ==
    IF Falsy(p) THEN ToSet(items) ELSE { f \in ToSet(items) : startswith(f, p) }

TestPrefixes == {None, <<>>, <<"a">>, <<"b">>, <<"c">>, <<"a", "1">>, <<"b", "2", ".MKV", "x">>}

\* C6: choose_random_by_prefix(items, prefix) returns none exactly when the
\* candidate set (all items if the prefix is empty or absent, else the items
\* that start with the prefix) is empty; otherwise its possible results are
\* exactly the members of the candidate set.  Checked on every unused list
\* the program reaches, and on the candidate the top-up loop proposes.
C6_Choose ==
    /\ \A p \in TestPrefixes :
          LET items == List(data, "unused")
              R == choose_random_by_prefix(items, p)
              C == Candidates(items, p)
          IN  /\ (None \in R) <=> (C = {})
              /\ R = IF C = {} THEN {None} ELSE C
    /\ pc = "topup_prompt" =>
          candidate \in Candidates(List(data, "unused"), Get(data, "last_prefix", None))

\* reached when the proposal is the second of two matching names and a
\* non-matching name is in unused too
C6_Witness ==
    /\ pc = "topup_prompt"
    /\ Get(data, "last_prefix", None) = <<"a">>
    /\ \E i, j, k \in 1..Len(List(data, "unused")) :
          /\ i < j
          /\ startswith(data["unused"][i], <<"a">>)
          /\ data["unused"][j] = candidate
          /\ ~startswith(data["unused"][k], <<"a">>)

\* ledger e is ledger d with one occurrence of x taken out of list `from`
\* and x appended to list `to`, and nothing else changed
MovedOne(d, e, x, from, to) ==
    /\ List(e, to) = Append(List(d, to), x)
    /\ \E i \in 1..Len(List(d, from)) :
          /\ List(d, from)[i] = x
          /\ List(e, from) = SubSeq(List(d, from), 1, i - 1)
                             \o SubSeq(List(d, from), i + 1, Len(List(d, from)))
    /\ \A k \in ListKeys \ {from, to} : List(e, k) = List(d, k)
    /\ Get(e, "last_prefix", <<"absent">>) = Get(d, "last_prefix", <<"absent">>)

\* C7: in the top-up loop confirm, ignore and mark-as-b-roll move exactly
\* the proposed candidate out of unused and into inprogress, ignore and
\* b-roll respectively, and change no other entry of any category.
C7_TopUpMoves ==
    [][/\ TopUpConfirm => MovedOne(data, data', candidate, "unused", "inprogress")
       /\ TopUpIgnore => MovedOne(data, data', candidate, "unused", "ignore")
       /\ TopUpBroll => MovedOne(data, data', candidate, "unused", "b-roll")]_vars

\* reached by confirming x from unused = [x], inprogress = []
C7_Witness ==
    /\ pc = "topup_copy"
    /\ List(data, "unused") = <<>>
    /\ List(data, "inprogress") = <<candidate>>

\* C8: in the management loop done, ignore, return-to-unused and mark-b-roll
\* move exactly the selected item out of inprogress and into used, ignore,
\* unused and b-roll respectively; the in-progress count goes down by one
\* and no other category changes.
C8_MgmtMoves ==
    [][/\ MgmtDone => /\ MovedOne(data, data', chosen, "inprogress", "used")
                      /\ Len(List(data', "inprogress")) = Len(List(data, "inprogress")) - 1
       /\ MgmtBroll => /\ MovedOne(data, data', chosen, "inprogress", "b-roll")
                       /\ Len(List(data', "inprogress")) = Len(List(data, "inprogress")) - 1
       /\ MgmtIgnore => MovedOne(data, data', chosen, "inprogress", "ignore")
       /\ MgmtReturn => MovedOne(data, data', chosen, "inprogress", "unused")]_vars

\* reached right after 'return to unused' of one of several in-progress files
C8_Witness ==
    /\ pc = "mgmt_replace_r"
    /\ List(data, "unused") # <<>>
    /\ data["unused"][Len(data["unused"])] = chosen
    /\ ~Contains(List(data, "inprogress"), chosen)
    /\ List(data, "inprogress") # <<>>

\* C9: preview, pick-another and stop in the top-up loop, and continue,
\* back, an invalid selection and an unrecognized action in the management
\* loop change the ledger neither in memory nor in the file.
C9_NoChange ==
    [][(\/ TopUpPreview \/ TopUpPickAnother \/ TopUpStop
        \/ MgmtContinue \/ MgmtBack \/ MgmtInvalidSelection \/ MgmtUnrecognized)
       => UNCHANGED <<data, disk>>]_vars

\* reached by 'continue' in the management loop: in-progress files are left
C9_Witness ==
    /\ pc = "ask_prefix"
    /\ List(data, "inprogress") # <<>>
    /\ disk = <<data>>

LoopPrompts ==
    {"mgmt_select", "mgmt_action", "mgmt_replace_r", "mgmt_replace_i", "mgmt_copy",
     "topup_prompt", "topup_copy"}

\* C10: at every prompt of the management loop and of the top-up loop the
\* ledger file holds exactly the in-memory ledger.
C10_Persisted == pc \in LoopPrompts => disk = <<data>>

\* reached at the replacement prompt, after 'return to unused' was written
C10_Witness ==
    /\ pc = "mgmt_replace_r"
    /\ disk # <<>>
    /\ Contains(List(disk[1], "unused"), chosen)
    /\ List(data, "used") # <<>>

\* C11: a user interrupt (Ctrl-C) at any input prompt is caught and ends the
\* process cleanly: the process never dies of an uncaught KeyboardInterrupt.
C11_InterruptClean == status # "interrupted"

\* C12: when the source directory is missing or not a directory, or the
\* working directory cannot be created, the process exits with code 1 before
\* any ledger operation: update_json_with_videos has not run, nothing was
\* read into memory, and the ledger file is neither created nor written.
C12_NoLedgerTouched ==
    [][ /\ (InvalidDirectory \/ WorkingDirFails) => status' = "exit1"
        /\ status' = "exit1" =>
              /\ pc' = "halt"
              /\ disk' = disk
              /\ branch' = "none"
              /\ data' = EmptyDict ]_vars

\* the working directory could not be created while the directory holds
\* videos and no ledger file exists: none has been created
C12_Witness ==
    /\ status = "exit1"
    /\ working_dir
    /\ disk = <<>>
    /\ dir \cap Names # {}

\* C13: 'x' at the selection prompt of the management loop ends the whole
\* program at once with exit code 0: the prefix has not been asked, the file
\* is left as it is, which is what the loop last persisted (the in-memory
\* ledger), and no step follows a halt (no prefix prompt, no last_prefix
\* update, no top-up proposal).
C13_ExitStops ==
    [][ /\ MgmtExit =>
              /\ pc' = "halt"
              /\ status' = "exit0"
              /\ prefix' = None
              /\ disk' = disk
              /\ disk' = <<data'>>
        /\ pc = "halt" => UNCHANGED vars ]_vars

\* the program has ended inside the management loop after a transition of
\* that loop filed a name under "used"
C13_Witness ==
    /\ pc = "halt"
    /\ status = "exit0"
    /\ existing_videos # {}
    /\ branch = "load"
    /\ Get(data, "used", <<>>) # <<>>
    /\ disk = <<data>>

TopUpPcs == {"topup_prompt", "topup_copy"}

AtTarget(d) == Len(List(d, "inprogress")) >= target_total

\* unused holds no candidate for the stored prefix
Exhausted(d) == Candidates(List(d, "unused"), Get(d, "last_prefix", None)) = {}

\* the steps of top_up_inprogress_one_by_one
TopUpStep ==
    \/ ConfirmPrefix
    \/ TopUpPreview
    \/ TopUpStop
    \/ TopUpIgnore
    \/ TopUpBroll
    \/ TopUpConfirm
    \/ TopUpPickAnother
    \/ TopUpCopy

\* C14: the top-up loop ends exactly when the in-progress count has reached
\* the target, unused holds no candidate for last_prefix, or the user chose
\* stop: a step of the loop that ends it finds one of the three, and a step
\* that proposes a candidate finds none of them.  Confirm, ignore and b-roll
\* each make unused one shorter.  If the user does not answer preview or
\* pick-another forever, a started top-up loop eventually ends.
C14_Terminates ==
    /\ [][ /\ (TopUpStep /\ pc' = "halt") =>
                 (AtTarget(data') \/ Exhausted(data') \/ TopUpStop)
           /\ (TopUpStep /\ pc' = "topup_prompt") =>
                 (~AtTarget(data') /\ ~Exhausted(data'))
           /\ (TopUpConfirm \/ TopUpIgnore \/ TopUpBroll) =>
                 Len(List(data', "unused")) = Len(List(data, "unused")) - 1 ]_vars
    /\ (pc \in TopUpPcs) ~> (pc = "halt")

\* the loop has ended for want of a candidate with prefix "a", below the
\* target, while unused still holds a file and one was ignored
C14_Witness ==
    /\ pc = "halt"
    /\ status = "exit0"
    /\ branch # "none"
    /\ existing_videos = {}
    /\ Get(data, "last_prefix", None) = <<"a">>
    /\ List(data, "unused") # <<>>
    /\ List(data, "ignore") # <<>>
    /\ Exhausted(data)
    /\ ~AtTarget(data)

\* C15: the top-up loop never makes the in-progress list longer than the
\* target: entered with the count at or above the target it proposes nothing
\* and leaves the five lists as they are in the file; otherwise the count
\* grows by one per confirmation, by nothing else, and is at most the target
\* at every prompt of the loop.
C15_Target ==
    [][ /\ (ConfirmPrefix /\ AtTarget(disk[1])) =>
              /\ pc' = "halt"
              /\ status' = "exit0"
              /\ candidate' = None
              /\ \A k \in ListKeys :
                    List(data', k) = List(disk[1], k) /\ List(disk'[1], k) = List(disk[1], k)
        /\ TopUpConfirm =>
              /\ Len(List(data', "inprogress")) = Len(List(data, "inprogress")) + 1
              /\ Len(List(data', "inprogress")) <= target_total
        /\ (TopUpStep /\ ~TopUpConfirm /\ ~ConfirmPrefix) =>
              List(data', "inprogress") = List(data, "inprogress")
        /\ pc' \in TopUpPcs => Len(List(data', "inprogress")) <= target_total ]_vars

\* the loop has ended at the target while unused still holds a candidate
C15_Witness ==
    /\ pc = "halt"
    /\ status = "exit0"
    /\ "last_prefix" \in DOMAIN data
    /\ Len(List(data, "inprogress")) = target_total
    /\ ~Exhausted(data)
    /\ disk = <<data>>

\* C16: when a file is returned to unused and the user accepts a
\* replacement, the file drawn is another file than the one just returned.
C16_NotDrawnBack ==
    [][ (ReplaceAfterReturn /\ data' # data) =>
           List(data', "inprogress")[Len(List(data', "inprogress"))] # chosen ]_vars

\* C17: ignore and return-to-unused in the management loop make the
\* in-progress list one shorter.  A replacement requested after them when
\* unused holds no candidate for last_prefix draws nothing and leaves the
\* ledger, in memory and in the file, as it is, so the count ends one lower
\* than before the action; when a candidate exists the replacement makes
\* the list one longer again, so the count ends where it was.
C17_Replacement ==
    [][ /\ (MgmtReturn \/ MgmtIgnore) =>
              /\ Len(List(data', "inprogress")) = Len(List(data, "inprogress")) - 1
              /\ pc' \in {"mgmt_replace_r", "mgmt_replace_i"}
        /\ ((ReplaceAfterReturn \/ ReplaceAfterIgnore) /\ Exhausted(data)) =>
              /\ data' = data
              /\ disk' = disk
              /\ new_file' = None
              /\ pc' = "mgmt_select"
        /\ ((ReplaceAfterReturn \/ ReplaceAfterIgnore) /\ ~Exhausted(data)) =>
              /\ Len(List(data', "inprogress")) = Len(List(data, "inprogress")) + 1
              /\ Len(List(data', "unused")) = Len(List(data, "unused")) - 1
              /\ disk' = <<data'>> ]_vars

\* at the replacement prompt after a return to unused: the file returned
\* does not match last_prefix "a", nothing in unused does, and another file
\* is still in progress
C17_Witness ==
    /\ pc = "mgmt_replace_r"
    /\ Contains(List(data, "unused"), chosen)
    /\ Get(data, "last_prefix", None) = <<"a">>
    /\ List(data, "inprogress") # <<>>
    /\ Exhausted(data)
    /\ disk = <<data>>

MgmtPcs == {"mgmt_select", "mgmt_action", "mgmt_replace_r", "mgmt_replace_i", "mgmt_copy"}

\* C18: the management loop runs during the load, before the prefix prompt
\* of the run: it is entered iff the reconciled ledger has a non-empty
\* inprogress list, the prefix has not been asked while it runs, and it is
\* not entered again later.  The last_prefix the loop sees is the one the
\* file held at start-up (none if absent), it stays so throughout the loop,
\* and every replacement draw is a candidate of unused for that value.
C18_StoredPrefix ==
    [][ /\ LoadStep =>
              /\ (pc' = "mgmt_select") = (List(data', "inprogress") # <<>>)
              /\ disk # <<>> =>
                    /\ Get(data', "last_prefix", None) = Get(disk[1], "last_prefix", None)
                    /\ Get(disk'[1], "last_prefix", None) = Get(disk[1], "last_prefix", None)
        /\ pc' \in MgmtPcs => (prefix' = None /\ (LoadStep \/ pc \in MgmtPcs))
        /\ (pc \in MgmtPcs /\ pc' \in MgmtPcs \cup {"ask_prefix"}) =>
              /\ Get(data', "last_prefix", None) = Get(data, "last_prefix", None)
              /\ Get(disk'[1], "last_prefix", None) = Get(disk[1], "last_prefix", None)
        /\ ((ReplaceAfterReturn \/ ReplaceAfterIgnore) /\ data' # data) =>
              List(data', "inprogress")[Len(List(data', "inprogress"))]
                 \in Candidates(List(data, "unused"), Get(disk[1], "last_prefix", None)) ]_vars

\* a replacement with prefix "a" has been drawn in the management loop while
\* unused holds a file without that prefix
C18_Witness ==
    /\ pc = "mgmt_copy"
    /\ prefix = None
    /\ Get(disk[1], "last_prefix", None) = <<"a">>
    /\ startswith(new_file, <<"a">>)
    /\ \E x \in ToSet(List(data, "unused")) : ~startswith(x, <<"a">>)

\* C19: no file name is lost or duplicated.  Whenever a ledger file exists,
\* a step leaves the number of times each name is listed in the five
\* categories of the file as it is, except that the load-time reconciliation
\* may list names the file did not hold, once each; the same holds of the
\* in-memory ledger at every step of the management and top-up loops.
C19_Conserved ==
    [][ /\ (disk # <<>> /\ (disk' # disk \/ LoadStep)) =>
              \A x \in Names :
                 /\ ~LoadStep => Occurrences(disk'[1], x) = Occurrences(disk[1], x)
                 /\ LoadStep =>
                       /\ Occurrences(disk'[1], x) >= Occurrences(disk[1], x)
                       /\ Occurrences(disk'[1], x) <= IF Occurrences(disk[1], x) = 0
                                                       THEN 1 ELSE Occurrences(disk[1], x)
                       /\ Occurrences(data', x) = Occurrences(disk'[1], x)
        /\ (pc \in LoopPrompts \cup {"ask_prefix", "confirm_prefix"} /\ data' # data
              /\ ~InterruptCaught /\ ~InterruptUncaught) =>
              \A x \in Names : Occurrences(data', x) = Occurrences(data, x) ]_vars

\* the run has ended after transitions of both loops with every name listed
\* once: one used, one ignored, one in progress
C19_Witness ==
    /\ pc = "halt"
    /\ status = "exit0"
    /\ "last_prefix" \in DOMAIN data
    /\ List(data, "used") # <<>>
    /\ List(data, "ignore") # <<>>
    /\ List(data, "inprogress") # <<>>
    /\ \A x \in Names : Occurrences(data, x) = 1
    /\ disk = <<data>>

\* C20 as stated: in the management loop, started from a ledger whose
\* inprogress list is duplicate-free, the set listed to the user equals the
\* set of names of the ledger's inprogress list at every prompt, and the
\* file selected is in the ledger's inprogress list.
C20_Listed ==
    pc \in MgmtPcs =>
       /\ existing_videos = ToSet(List(data, "inprogress"))
       /\ pc = "mgmt_action" => Contains(List(data, "inprogress"), chosen)

\* C20 amended: in the management loop, started from a ledger whose five
\* lists are pairwise disjoint and duplicate-free, the set listed to the user
\* equals the set of names of the ledger's inprogress list at every prompt,
\* and the file selected is in the ledger's inprogress list.  (No step of the
\* loop changes how often a name is listed, so the ledger in memory is
\* disjoint and duplicate-free iff the loaded one was.)
C20_ListedDisjoint ==
    (pc \in MgmtPcs /\ WellFormed(data)) =>
       /\ existing_videos = ToSet(List(data, "inprogress"))
       /\ pc = "mgmt_action" => Contains(List(data, "inprogress"), chosen)

\* a replacement has been drawn after an ignore, from a disjoint ledger, and
\* is listed beside a file that was in progress from the start
C20_Witness ==
    /\ pc = "mgmt_copy"
    /\ WellFormed(data)
    /\ List(data, "ignore") # <<>>
    /\ Len(List(data, "inprogress")) >= 2
    /\ new_file \in existing_videos
    /\ existing_videos = ToSet(List(data, "inprogress"))

====
